---- MODULE Spec2Model ----
(***************************************************************************)
(* A model of docpipe's tree surgery: the paragraph splitter SplitPOnBr,   *)
(* the inline normalisation stages and the DOM pattern matcher.            *)
(*                                                                         *)
(* A document tree is a heap: dom is a sequence of element records, an     *)
(* element is its index.  An element holds tag, attrib, text, tail, the    *)
(* sequence of its children (kids) and its parent (0 is None).  A text is  *)
(* a sequence of characters; None and '' are both the empty sequence (the  *)
(* code tests texts for truth only).  As in lxml the tail belongs to the   *)
(* element: moving or removing an element takes its tail along.            *)
(***************************************************************************)
EXTENDS Integers, Sequences, FiniteSets, TLC

\* dom: the tree; orig: the tree the operation was given; prev: the tree before the
\* last step; pc: where the operation stands; todo: what its loop has yet to visit
\* (before a plain-text call: the text it is given); cur: what the last step visited;
\* round, once: the normalisation round and the tree after round one; matcher: the
\* matcher instance; ancs: the ancestors run_dom_matching has yet to visit; given: the
\* match handed to make_href; hrefs: what the calls of make_href on it returned
VARIABLES dom, orig, prev, pc, todo, cur, round, once, matcher, ancs, given, hrefs

vars == <<dom, orig, prev, pc, todo, cur, round, once, matcher, ancs, given, hrefs>>

None == 0
NoText == <<>>

(***************************************************************************)
(* Bounds of the model.                                                    *)
(***************************************************************************)
MaxBrNodes == 6

MaxNormNodes == 4

(***************************************************************************)
(* lxml element API                                                        *)
(***************************************************************************)
Element(tg, at, tx, tl) ==
    [tag |-> tg, attrib |-> at, text |-> tx, tail |-> tl, kids |-> <<>>, parent |-> None]

\* etree.Element(tag) / makeelement(tag): a fresh element, detached, no attributes
makeelement(d, tg) == Append(d, Element(tg, {}, NoText, NoText))

IndexOf(s, x) == CHOOSE i \in 1..Len(s) : s[i] = x

RemoveAt(s, i) == SubSeq(s, 1, i - 1) \o SubSeq(s, i + 1, Len(s))

InsertAt(s, i, x) == SubSeq(s, 1, i - 1) \o <<x>> \o SubSeq(s, i, Len(s))

getparent(d, n) == d[n].parent

getnext(d, n) ==
    LET p == d[n].parent IN
    IF p = None THEN None
    ELSE LET i == IndexOf(d[p].kids, n) IN
         IF i < Len(d[p].kids) THEN d[p].kids[i + 1] ELSE None

getprevious(d, n) ==
    LET p == d[n].parent IN
    IF p = None THEN None
    ELSE LET i == IndexOf(d[p].kids, n) IN
         IF i > 1 THEN d[p].kids[i - 1] ELSE None

\* unlink n from its parent; its tail stays with n
Detach(d, n) ==
    LET p == d[n].parent IN
    IF p = None THEN d
    ELSE [d EXCEPT ![p].kids = RemoveAt(@, IndexOf(@, n)), ![n].parent = None]

\* parent.remove(child)
remove(d, p, c) == Detach(d, c)

\* e.append(c): c is moved from wherever it is to the end of e's children
append(d, e, c) ==
    LET d1 == Detach(d, c) IN
    [d1 EXCEPT ![e].kids = Append(@, c), ![c].parent = e]

\* e.addnext(c): c becomes the sibling directly after e
addnext(d, e, c) ==
    LET d1 == Detach(d, c)
        p  == d1[e].parent
    IN [d1 EXCEPT ![p].kids = InsertAt(@, IndexOf(@, e) + 1, c), ![c].parent = p]

\* e.insert(0, c)
insert0(d, e, c) ==
    LET d1 == Detach(d, c) IN
    [d1 EXCEPT ![e].kids = <<c>> \o @, ![c].parent = e]

settext(d, n, t) == [d EXCEPT ![n].text = t]

settail(d, n, t) == [d EXCEPT ![n].tail = t]

(***************************************************************************)
(* Document order                                                          *)
(***************************************************************************)
RECURSIVE Flat(_, _)
\* the elements of the subtree of n, in document order
Flat(d, n) ==
    LET RECURSIVE F(_)
        F(ks) == IF ks = <<>> THEN <<>> ELSE Flat(d, Head(ks)) \o F(Tail(ks))
    IN <<n>> \o F(d[n].kids)

RECURSIVE Inner(_, _)
\* the text inside n: own text, then every child's text and tail (not n's tail)
Inner(d, n) ==
    LET RECURSIVE F(_)
        F(ks) == IF ks = <<>> THEN <<>>
                 ELSE Inner(d, Head(ks)) \o d[Head(ks)].tail \o F(Tail(ks))
    IN d[n].text \o F(d[n].kids)

Range(s) == {s[i] : i \in 1..Len(s)}

Descendants(d, n) == Range(Flat(d, n)) \ {n}

RECURSIVE Ancestors(_, _)
\* the proper ancestors of n, innermost first
Ancestors(d, n) ==
    IF d[n].parent = None THEN <<>> ELSE <<d[n].parent>> \o Ancestors(d, d[n].parent)

Root == 1

(***************************************************************************)
(* Input trees: Root is a div; the other elements are numbered in document *)
(* order (an element's parent is the element before it or one of that      *)
(* element's ancestors).  br is void; no p lies inside a p.                *)
(***************************************************************************)
RECURSIVE OnPath(_, _, _)
OnPath(par, a, x) == a = x \/ (x > 1 /\ OnPath(par, a, par[x]))

RECURSIVE Shapes(_)
Shapes(n) ==
    IF n = 2 THEN {[i \in 2..2 |-> Root]}
    ELSE {[i \in 2..n |-> IF i = n THEN a ELSE par[i]] :
             <<par, a>> \in {pa \in Shapes(n - 1) \X (1..(n - 1)) : OnPath(pa[1], pa[2], n - 1)}}

KidsOf(par, n, i) == SelectSeq([j \in 1..n |-> j], LAMBDA j : j > 1 /\ par[j] = i)

Void == {"br", "img"}

WellTagged(par, tg, n) ==
    \A i \in 2..n :
        /\ tg[par[i]] \notin Void
        /\ tg[i] = "p" => \A a \in 1..n : (a # i /\ OnPath(par, a, i)) => tg[a] # "p"

\* the tree of shape par with tags tg; tx and tl give each element's text and tail
MkDom(par, tg, tx, tl, n) ==
    [i \in 1..n |->
        [tag |-> tg[i], attrib |-> IF i = Root THEN {} ELSE {<<"id", i>>},
         text |-> IF tg[i] \in Void THEN NoText ELSE tx[i],
         tail |-> IF i = Root THEN NoText ELSE tl[i],
         kids |-> KidsOf(par, n, i),
         parent |-> IF i = Root THEN None ELSE par[i]]]

TagAssign(tags, n) == {[i \in 1..n |-> IF i = Root THEN "div" ELSE tg[i]] : tg \in [2..n -> tags]}

(***************************************************************************)
(* SplitPOnBr                                                              *)
(***************************************************************************)
BrTags == {"p", "br", "b", "i"}

\* every text and every tail of the input is a character of its own
BrTree(par, tg, n) ==
    MkDom(par, tg, [i \in 1..n |-> <<ToString(2 * i)>>], [i \in 1..n |-> <<ToString(2 * i + 1)>>], n)

\* context.html.xpath('.//p//br'), in document order
BrList(d) ==
    SelectSeq(Flat(d, Root),
              LAMBDA n : d[n].tag = "br" /\ \E a \in Range(Ancestors(d, n)) : d[a].tag = "p")

Reverse(s) == [i \in 1..Len(s) |-> s[Len(s) + 1 - i]]

\* lines 298-301: the elements strictly between br and its p, innermost first
RECURSIVE ChainOf(_, _)
ChainOf(d, parent) ==
    IF d[parent].tag = "p" THEN <<>> ELSE <<parent>> \o ChainOf(d, d[parent].parent)

\* lines 298-301: the p the walk stops at
RECURSIVE POf(_, _)
POf(d, parent) == IF d[parent].tag = "p" THEN parent ELSE POf(d, d[parent].parent)

\* a variant that makes the fresh elements outermost tag first
RECURSIVE MakeAll_OutermostFirst(_, _)
MakeAll_OutermostFirst(d, tags) ==
    IF tags = <<>> THEN d
    ELSE MakeAll_OutermostFirst(makeelement(d, tags[Len(tags)]), SubSeq(tags, 1, Len(tags) - 1))

\* lines 291, 303-306: p, then one fresh element per ancestor tag
RECURSIVE MakeAll(_, _)
MakeAll(d, tags) ==
    IF tags = <<>> THEN d ELSE MakeAll(makeelement(d, Head(tags)), Tail(tags))

\* lines 317-320: append the sibling, then ask the moved sibling for its next one
RECURSIVE MoveSiblings(_, _, _)
MoveSiblings(d, elem, sibling) ==
    IF sibling = None THEN d
    ELSE LET d1 == append(d, elem, sibling) IN MoveSiblings(d1, elem, getnext(d1, sibling))

\* lines 328-330
MoveParentTail(d, elements, br) ==
    IF 0 < Len(elements) - 1
    THEN settail(settail(d, elements[1], d[getparent(d, br)].tail), getparent(d, br), NoText)
    ELSE d

\* lines 310, 336: every element but the first takes the one before it
RECURSIVE NestChain(_, _, _)
NestChain(d, elements, i) ==
    IF i > Len(elements) THEN d
    ELSE NestChain(append(d, elements[i], elements[i - 1]), elements, i + 1)

\* lines 340-342
MoveParentSibling(d, p, br, ancestor_tags) ==
    LET sibling == getnext(d, getparent(d, br)) IN
    IF sibling # None /\ Len(ancestor_tags) > 0 THEN append(d, p, sibling) ELSE d

\* a variant that forgets to clear the original p's tail (line 347)
MovePTail_KeepsTail(d, parent, p) == addnext(settail(d, p, d[parent].tail), parent, p)

\* lines 346-348
MovePTail(d, parent, p) ==
    addnext(settail(settail(d, p, d[parent].tail), parent, NoText), parent, p)

\* lines 290-349: the body of the loop, for one br
SplitAt(d, br) ==
    LET chain         == ChainOf(d, getparent(d, br))
        parent        == POf(d, getparent(d, br))
        ancestor_tags == [i \in 1..Len(chain) |-> d[chain[i]].tag]
        p             == Len(d) + 1
        elements      == [i \in 1..Len(chain) |-> p + i] \o <<p>>
        d1 == MakeAll(makeelement(d, "p"), ancestor_tags)
        d2 == settext(d1, elements[1], d1[br].tail)
        d3 == MoveSiblings(d2, elements[1], getnext(d2, br))
        d4 == MoveParentTail(d3, elements, br)
        d5 == NestChain(d4, elements, 2)
        d6 == MoveParentSibling(d5, p, br, ancestor_tags)
        d7 == MovePTail(d6, parent, p)
    IN remove(d7, getparent(d7, br), br)

InitBr ==
    /\ \E n \in 3..MaxBrNodes : \E par \in Shapes(n) : \E tg \in TagAssign(BrTags, n) :
          /\ WellTagged(par, tg, n)
          /\ dom = BrTree(par, tg, n)
    /\ orig = dom
    /\ prev = dom
    /\ pc = "SplitPOnBr"
    /\ todo = Reverse(BrList(dom))
    /\ cur = None
    /\ round = 1
    /\ once = <<>>
    /\ matcher = <<>>
    /\ ancs = <<>>
    /\ given = <<>>
    /\ hrefs = <<>>

\* one iteration of the loop of SplitPOnBr.__call__
SplitStep ==
    /\ pc = "SplitPOnBr"
    /\ todo # <<>>
    /\ dom' = SplitAt(dom, Head(todo))
    /\ prev' = dom
    /\ cur' = Head(todo)
    /\ todo' = Tail(todo)
    /\ UNCHANGED <<given, hrefs, orig, pc, round, once, matcher, ancs>>

SplitDone ==
    /\ pc = "SplitPOnBr"
    /\ todo = <<>>
    /\ pc' = "done"
    /\ UNCHANGED <<given, hrefs, dom, orig, prev, todo, cur, round, once, matcher, ancs>>

NextBr == SplitStep \/ SplitDone

SpecBr == InitBr /\ [][NextBr]_vars

(***************************************************************************)
(* xmlutils (merge_adjacent, unwrap_element)                               *)
(***************************************************************************)
\* merge_adjacent(e, nxt): e takes nxt's text, children and tail; nxt is removed
RECURSIVE AppendAll(_, _, _)
AppendAll(d, e, ks) == IF ks = <<>> THEN d ELSE AppendAll(append(d, e, Head(ks)), e, Tail(ks))

merge_adjacent(d, e, nxt) ==
    LET ks == d[e].kids
        d1 == IF ks # <<>> THEN settail(d, ks[Len(ks)], d[ks[Len(ks)]].tail \o d[nxt].text)
                           ELSE settext(d, e, d[e].text \o d[nxt].text)
        d2 == AppendAll(d1, e, d1[nxt].kids)
        d3 == settail(d2, e, d2[nxt].tail)
    IN remove(d3, getparent(d3, nxt), nxt)

\* unwrap_element(node) of a childless node: its text and tail go to the previous
\* sibling's tail, or to the parent's text when it is the first child
unwrap_element(d, node) ==
    LET parent == getparent(d, node)
        before == getprevious(d, node)
        kept   == d[node].text \o d[node].tail
        d1 == IF before # None THEN settail(d, before, d[before].tail \o kept)
                               ELSE settext(d, parent, d[parent].text \o kept)
    IN remove(d1, parent, node)

(***************************************************************************)
(* Inline normalisation stages                                             *)
(***************************************************************************)
IsSpace(c) == c = " "

\* not t.strip()
Blank(t) == \A i \in 1..Len(t) : IsSpace(t[i])

\* context.html.xpath('.//t1|.//t2|...'), in document order
XPathTags(d, tags) == SelectSeq(Flat(d, Root), LAMBDA n : n # Root /\ d[n].tag \in tags)

MergeTags == {"b", "i", "sup", "sub"}

\* lines 253-256
RECURSIVE MergeLoop(_, _)
MergeLoop(d, e) ==
    LET nxt == getnext(d, e) IN
    IF nxt # None /\ d[nxt].tag = d[e].tag /\ d[e].tail = NoText
    THEN MergeLoop(merge_adjacent(d, e, nxt), e)
    ELSE d

\* lines 252-256, over the elements the xpath returned
RECURSIVE MergeEach(_, _)
MergeEach(d, es) == IF es = <<>> THEN d ELSE MergeEach(MergeLoop(d, Head(es)), Tail(es))

\* MergeAdjacentInlines.__call__
MergeAdjacentInlines(d) == MergeEach(d, XPathTags(d, MergeTags))

EmptyInlineTags == {"a", "b", "i", "sup", "sub"}

\* lines 270-274
RECURSIVE UnwrapEach(_, _)
UnwrapEach(d, ns) ==
    IF ns = <<>> THEN d
    ELSE LET node == Head(ns) IN
         UnwrapEach(IF d[node].kids = <<>> /\ Blank(d[node].text) THEN unwrap_element(d, node) ELSE d,
                    Tail(ns))

\* RemoveEmptyInlines.__call__
RemoveEmptyInlines(d) == UnwrapEach(d, XPathTags(d, EmptyInlineTags))

content_tags == {"img"}

\* lines 374-379: remove the childless ancestors, up to the root
RECURSIVE RemoveEmptyAncestors(_, _)
RemoveEmptyAncestors(d, p) ==
    IF p = None THEN d
    ELSE IF d[p].kids # <<>> \/ getparent(d, p) = None THEN d
    ELSE LET parent == getparent(d, p) IN RemoveEmptyAncestors(remove(d, parent, p), parent)

\* lines 366-379
PruneP(d, p) ==
    IF Blank(Inner(d, p)) /\ ~ \E n \in Descendants(d, p) : d[n].tag \in content_tags
    THEN LET parent == getparent(d, p) IN RemoveEmptyAncestors(remove(d, parent, p), parent)
    ELSE d

RECURSIVE PruneEach(_, _)
PruneEach(d, ps) == IF ps = <<>> THEN d ELSE PruneEach(PruneP(d, Head(ps)), Tail(ps))

\* RemoveEmptyParagraphs.__call__
RemoveEmptyParagraphs(d) == PruneEach(d, XPathTags(d, {"p"}))

NormTags == {"p", "b", "i"}

Texts == {NoText, <<" ">>, <<"x">>}

InitNorm ==
    /\ \E n \in 2..MaxNormNodes : \E par \in Shapes(n) : \E tg \in TagAssign(NormTags, n) :
       \E tx \in [2..n -> Texts] : \E tl \in [2..n -> Texts] :
          /\ WellTagged(par, tg, n)
          /\ dom = MkDom(par, tg, [i \in 1..n |-> IF i = Root THEN NoText ELSE tx[i]],
                         [i \in 1..n |-> IF i = Root THEN NoText ELSE tl[i]], n)
    /\ orig = dom
    /\ prev = dom
    /\ pc = "MergeAdjacentInlines"
    /\ todo = <<>>
    /\ cur = None
    /\ round = 1
    /\ once = <<>>
    /\ matcher = <<>>
    /\ ancs = <<>>
    /\ given = <<>>
    /\ hrefs = <<>>

MergeStage ==
    /\ pc = "MergeAdjacentInlines"
    /\ dom' = MergeAdjacentInlines(dom)
    /\ prev' = dom
    /\ pc' = "RemoveEmptyInlines"
    /\ UNCHANGED <<given, hrefs, orig, todo, cur, round, once, matcher, ancs>>

UnwrapStage ==
    /\ pc = "RemoveEmptyInlines"
    /\ dom' = RemoveEmptyInlines(dom)
    /\ prev' = dom
    /\ pc' = "RemoveEmptyParagraphs"
    /\ UNCHANGED <<given, hrefs, orig, todo, cur, round, once, matcher, ancs>>

\* the third stage ends a round; the sequence is run twice
PruneStage ==
    /\ pc = "RemoveEmptyParagraphs"
    /\ dom' = RemoveEmptyParagraphs(dom)
    /\ prev' = dom
    /\ IF round = 1
       THEN pc' = "MergeAdjacentInlines" /\ round' = 2 /\ once' = dom'
       ELSE pc' = "done" /\ UNCHANGED <<round, once>>
    /\ UNCHANGED <<given, hrefs, orig, todo, cur, matcher, ancs>>

NextNorm == MergeStage \/ UnwrapStage \/ PruneStage

SpecNorm == InitNorm /\ [][NextNorm]_vars

RECURSIVE TreeVal(_, _)
\* the tree below n as a value
TreeVal(d, n) ==
    [tag |-> d[n].tag, attrib |-> d[n].attrib, text |-> d[n].text, tail |-> d[n].tail,
     kids |-> [i \in 1..Len(d[n].kids) |-> TreeVal(d, d[n].kids[i])]]

\* C10: running the three normalisation stages a second time changes nothing.
C10_NormalisationIdempotent ==
    (pc = "done" /\ round = 2) => TreeVal(dom, Root) = TreeVal(once, Root)

(***************************************************************************)
(* Texts and the citation pattern of ActMatcher                            *)
(*                                                                         *)
(* A character of a text stands for a lexical unit of the real text: "A"   *)
(* is the keyword Act, "1" and "2" are the references "<num> of <year>" to *)
(* act 1 and act 2 of the year 2000, " " is white space, "(" and ")" are   *)
(* themselves and "\f" is a form feed.  "A", "1" and "2" are made of word  *)
(* characters, the others are not.                                         *)
(***************************************************************************)
\* an attribute that holds None is Absent, one that holds x is Some(x)
Absent == <<>>

Some(x) == <<x>>

IsWord(c) == c \in {"A", "1", "2"}

Refs == {"1", "2"}

\* the Python slice s[a:b], for 0 <= a
Slice(s, a, b) == SubSeq(s, a + 1, IF b < Len(s) THEN b ELSE Len(s))

Contains(s, c) == \E i \in 1..Len(s) : s[i] = c

RECURSIVE SkipSpace(_, _)
SkipSpace(s, i) == IF i <= Len(s) /\ s[i] = " " THEN SkipSpace(s, i + 1) ELSE i

\* pattern_re tried at offset pos of s: \bAct \s* \(? <ref> \)?
PatternAt(s, pos) ==
    LET i == pos + 1
        j == SkipSpace(s, i + 1)
        k == IF j <= Len(s) /\ s[j] = "(" THEN j + 1 ELSE j
        e == IF k + 1 <= Len(s) /\ s[k + 1] = ")" THEN k + 1 ELSE k
    IN IF /\ i <= Len(s) /\ s[i] = "A"
          /\ (i = 1 \/ ~IsWord(s[i - 1]))
          /\ k <= Len(s) /\ s[k] \in Refs
       THEN Some([string |-> s, start |-> pos, end |-> e,
                  groupdict |-> [num |-> s[k], year |-> "2000"]])
       ELSE Absent

\* pattern_re.finditer(s): the non-overlapping matches, left to right
RECURSIVE finditer(_, _)
finditer(s, pos) ==
    IF pos >= Len(s) THEN <<>>
    ELSE LET m == PatternAt(s, pos) IN
         IF m # Absent THEN m \o finditer(s, m[1].end) ELSE finditer(s, pos + 1)

\* TextPatternMatcher.make_extracted_match
super_make_extracted_match(match) ==
    [string |-> match.string, text |-> Slice(match.string, match.start, match.end),
     start |-> match.start, end |-> match.end, groups |-> match.groupdict]

EndsWith(t, c) == t # <<>> /\ t[Len(t)] = c

\* a variant that trims the text but keeps the end offset
make_extracted_match_KeepsEnd(match) ==
    LET em == super_make_extracted_match(match) IN
    IF EndsWith(em.text, ")") /\ ~Contains(em.text, "(")
    THEN [em EXCEPT !.text = Slice(em.text, 0, Len(em.text) - 1)]
    ELSE em

\* a variant that drops a trailing ")" whether or not the text holds a "("
make_extracted_match_TrimsAlways(match) ==
    LET em == super_make_extracted_match(match) IN
    IF EndsWith(em.text, ")")
    THEN [em EXCEPT !.text = Slice(em.text, 0, Len(em.text) - 1), !.end = em.end - 1]
    ELSE em

\* a variant that drops the trailing ")" from the text but moves the start
make_extracted_match_MovesStart(match) ==
    LET em == super_make_extracted_match(match) IN
    IF EndsWith(em.text, ")") /\ ~Contains(em.text, "(")
    THEN [em EXCEPT !.text = Slice(em.text, 0, Len(em.text) - 1), !.start = em.start + 1]
    ELSE em

\* ActMatcher.make_extracted_match
make_extracted_match(match) ==
    LET em == super_make_extracted_match(match) IN
    IF EndsWith(em.text, ")") /\ ~Contains(em.text, "(")
    THEN [em EXCEPT !.text = Slice(em.text, 0, Len(em.text) - 1), !.end = em.end - 1]
    ELSE em

\* find_text_matches(text), as the list the generator yields
find_text_matches(text) ==
    LET ms == finditer(text, 0) IN [i \in 1..Len(ms) |-> make_extracted_match(ms[i])]

\* FrbrURI.work_uri()
work_uri(frbr_uri) ==
    "/akn/" \o frbr_uri.country \o "/" \o frbr_uri.doctype \o "/" \o frbr_uri.date
        \o "/" \o frbr_uri.number

\* ActMatcher.href_pattern_args: the groups, with the document's country as juri
href_pattern_args(self, match) ==
    [num |-> match.groups.num, year |-> match.groups.year, juri |-> self.frbr_uri.country]

\* href_pattern.format(**args) with href_pattern "/akn/{juri}/act/{year}/{num}"
make_href(self, match) ==
    LET args == href_pattern_args(self, match) IN
    "/akn/" \o args.juri \o "/act/" \o args.year \o "/" \o args.num

\* a variant that accepts every match with an href
is_text_match_valid_AnyHref(self, text, match) == make_href(self, match) # ""

\* CitationMatcher.is_text_match_valid
is_text_match_valid(self, text, match) ==
    make_href(self, match) # "" /\ make_href(self, match) # work_uri(self.frbr_uri)

\* CitationMatcher.is_node_match_valid
is_node_match_valid(self, node, match) ==
    make_href(self, match) # "" /\ make_href(self, match) # work_uri(self.frbr_uri)

(***************************************************************************)
(* The matcher instance and the DOM matching engine                        *)
(***************************************************************************)
\* the namespace of the XML documents
AknNs == "akn"

\* the tag of an element in namespace ns, as lxml spells it
Clark(ns, name) == "{" \o ns \o "}" \o name

\* root.nsmap[None] if root.nsmap else None: HTML trees have no namespace
nsmap(d, root) == IF d[Root].tag = Clark(AknNs, "akomaNtoso") THEN Some(AknNs) ELSE Absent

html_marker_tag == "a"

xml_marker_tag == "ref"

html_ancestor_xpath == Absent

\* '//ns:coverpage|//ns:preface|...': the local names of the region elements
xml_ancestor_xpath ==
    Some({"coverpage", "preface", "preamble", "body", "mainBody", "portionBody",
          "judgmentBody", "conclusions"})

\* ".//text()[contains(., 'Act') and not(ancestor::a)]"
html_candidate_xpath == [contains |-> "A", prefix |-> Absent, not_ancestor |-> "a"]

\* ".//text()[contains(., 'Act') and not(ancestor::ns:ref)]"
xml_candidate_xpath == [contains |-> "A", prefix |-> Some("ns"), not_ancestor |-> "ref"]

text_prefix_length == 30

text_suffix_length == 30

\* a fresh instance: only the (empty) class attributes
NewMatcher ==
    [frbr_uri |-> Absent, text |-> Absent, root |-> Absent, pagenum |-> Absent,
     ns |-> Absent, marker_tag |-> Absent, ancestor_xpath |-> Absent,
     candidate_xpath |-> Absent, citations |-> <<>>]

\* etree.XPath(xpath, namespaces=nsmap): a prefixed name is looked up in nsmap
QName(prefix, name, ns) == IF prefix # Absent THEN Clark(ns[1], name) ELSE name

\* TextPatternMatcher.setup
super_setup(self, d, frbr_uri, text, root) ==
    LET s1 == [self EXCEPT !.frbr_uri = frbr_uri, !.text = text, !.root = root,
                           !.pagenum = Absent]
        ns == nsmap(d, root[1])
    IN IF root # Absent
       THEN [s1 EXCEPT !.ns = ns,
                       !.marker_tag = IF ns # Absent THEN Clark(ns[1], @) ELSE @,
                       !.candidate_xpath = [@ EXCEPT !.not_ancestor =
                                              QName(s1.candidate_xpath.prefix, @, ns)],
                       !.ancestor_xpath =
                           IF @ # Absent THEN Some({QName(Some("ns"), x, ns) : x \in @[1]})
                           ELSE Absent]
       ELSE s1

\* CitationMatcher.setup without line 255: the citations of earlier calls are kept
setup_KeepsCitations(self, d, frbr_uri, text, root) ==
    super_setup(self, d, frbr_uri, text, root)

\* CitationMatcher.setup
setup(self, d, frbr_uri, text, root) ==
    [super_setup(self, d, frbr_uri, text, root) EXCEPT !.citations = <<>>]

ExtractedCitation(text, start, end, href, target_id, prefix, suffix) ==
    [text |-> text, start |-> start, end |-> end, href |-> href, target_id |-> target_id,
     prefix |-> prefix, suffix |-> suffix]

\* element.set(key, value)
set(d, n, key, value) ==
    [d EXCEPT ![n].attrib = {a \in @ : a[1] # key} \cup {<<key, value>>}]

\* TextPatternMatcher.markup_node_match: the marker is a fresh, detached element
super_markup_node_match(self, d, node, match) ==
    [dom |-> settext(makeelement(d, self.marker_tag), Len(d) + 1, match.text),
     marker |-> Len(d) + 1, start |-> match.start, end |-> match.end]

\* a variant that records the citation but leaves the marker without href
markup_node_match_NoAttribute(self, d, node, match) ==
    LET href == make_href(self, match)
        r    == super_markup_node_match(self, d, node, match)
    IN IF href = "" \/ href = work_uri(self.frbr_uri)
       THEN [self |-> self, dom |-> d, marker |-> None, start |-> None, end |-> None]
       ELSE [self |-> [self EXCEPT !.citations =
                          Append(@, ExtractedCitation(match.text, match.start, match.end,
                                                      href, Absent, Absent, Absent))],
             dom |-> r.dom,
             marker |-> r.marker, start |-> r.start, end |-> r.end]

\* CitationMatcher.markup_node_match
markup_node_match(self, d, node, match) ==
    LET href == make_href(self, match)
        r    == super_markup_node_match(self, d, node, match)
    IN IF href = "" \/ href = work_uri(self.frbr_uri)
       THEN [self |-> self, dom |-> d, marker |-> None, start |-> None, end |-> None]
       ELSE [self |-> [self EXCEPT !.citations =
                          Append(@, ExtractedCitation(match.text, match.start, match.end,
                                                      href, Absent, Absent, Absent))],
             dom |-> set(r.dom, r.marker, "href", href),
             marker |-> r.marker, start |-> r.start, end |-> r.end]

\* a variant in which the string keeps all its characters
wrap_text_KeepsWhole(d, node, tail, wrapped, start_pos, end_pos) ==
    LET s  == IF tail THEN d[node].tail ELSE d[node].text
        d1 == settail(d, wrapped, Slice(s, end_pos, Len(s)))
    IN IF tail THEN addnext(d1, node, wrapped) ELSE insert0(d1, node, wrapped)

\* a variant that puts the wrapper of a text after the children of node
wrap_text_AppendsLast(d, node, tail, wrapped, start_pos, end_pos) ==
    LET s  == IF tail THEN d[node].tail ELSE d[node].text
        d1 == settail(d, wrapped, Slice(s, end_pos, Len(s)))
    IN IF tail
       THEN addnext(settail(d1, node, Slice(s, 0, start_pos)), node, wrapped)
       ELSE append(settext(d1, node, Slice(s, 0, start_pos)), node, wrapped)

\* xmlutils.wrap_text(node, tail, wrapper, start_pos, end_pos): the string keeps its
\* part before start_pos, the wrapper element follows it and takes the part from end_pos
\* as its tail; it is the next sibling of node for a tail, the first child for a text
wrap_text(d, node, tail, wrapped, start_pos, end_pos) ==
    LET s  == IF tail THEN d[node].tail ELSE d[node].text
        d1 == settail(d, wrapped, Slice(s, end_pos, Len(s)))
    IN IF tail
       THEN addnext(settail(d1, node, Slice(s, 0, start_pos)), node, wrapped)
       ELSE insert0(settext(d1, node, Slice(s, 0, start_pos)), node, wrapped)

\* handle_node_match: new_node is None when nothing was inserted
handle_node_match(self, d, node, match, in_tail) ==
    IF is_node_match_valid(self, node, match)
    THEN LET r == markup_node_match(self, d, node, match) IN
         IF r.marker # None
         THEN [self |-> r.self, new_node |-> r.marker,
               dom |-> wrap_text(r.dom, node, in_tail, r.marker, r.start, r.end)]
         ELSE [self |-> r.self, new_node |-> None, dom |-> r.dom]
    ELSE [self |-> self, new_node |-> None, dom |-> d]

\* lines 169-176 and 179-186: the matches of one string, up to the first insertion
RECURSIVE ScanMatches(_, _, _, _, _)
ScanMatches(self, d, node, matches, in_tail) ==
    IF matches = <<>> THEN [self |-> self, new_node |-> None, dom |-> d]
    ELSE LET r == handle_node_match(self, d, node, Head(matches), in_tail) IN
         IF r.new_node # None THEN r
         ELSE ScanMatches(r.self, r.dom, node, Tail(matches), in_tail)

\* lines 178-189
RECURSIVE ScanTails(_, _, _)
ScanTails(self, d, node) ==
    IF node = None \/ d[node].tail = NoText THEN [self |-> self, dom |-> d]
    ELSE LET r == ScanMatches(self, d, node, find_text_matches(d[node].tail), TRUE) IN
         ScanTails(r.self, r.dom, r.new_node)

\* lines 164-189: the body of the loop, for one candidate
ScanCandidate(self, d, candidate) ==
    LET node == candidate.getparent IN
    IF ~candidate.is_tail
    THEN LET r == ScanMatches(self, d, node, find_text_matches(d[node].text), FALSE) IN
         ScanTails(r.self, r.dom, IF r.new_node # None THEN r.new_node ELSE node)
    ELSE ScanTails(self, d, node)

\* ancestor_nodes: the root, or what the absolute ancestor xpath selects in the document
ancestor_nodes(self, d) ==
    IF self.ancestor_xpath = Absent THEN <<self.root[1]>>
    ELSE SelectSeq(Flat(d, Root), LAMBDA n : d[n].tag \in self.ancestor_xpath[1])

\* './/text()' from n: the texts and tails below n in document order, each with the
\* element lxml gives as its getparent() and its is_tail flag
RECURSIVE TextNodes(_, _)
TextNodes(d, n) ==
    LET RECURSIVE F(_)
        F(ks) == IF ks = <<>> THEN <<>>
                 ELSE TextNodes(d, Head(ks))
                      \o (IF d[Head(ks)].tail # NoText
                          THEN <<[getparent |-> Head(ks), is_tail |-> TRUE]>> ELSE <<>>)
                      \o F(Tail(ks))
    IN (IF d[n].text # NoText THEN <<[getparent |-> n, is_tail |-> FALSE]>> ELSE <<>>)
       \o F(d[n].kids)

StringOf(d, c) == IF c.is_tail THEN d[c.getparent].tail ELSE d[c.getparent].text

\* the element that a text node is a child of
HolderOf(d, c) == IF c.is_tail THEN d[c.getparent].parent ELSE c.getparent

\* candidate_text_nodes(root)
candidate_text_nodes(self, d, root) ==
    SelectSeq(TextNodes(d, root),
              LAMBDA c : /\ Contains(StringOf(d, c), self.candidate_xpath.contains)
                         /\ \A a \in {HolderOf(d, c)} \cup Range(Ancestors(d, HolderOf(d, c))) :
                               d[a].tag # self.candidate_xpath.not_ancestor)

(***************************************************************************)
(* Plain-text extraction                                                   *)
(***************************************************************************)
Max(a, b) == IF a > b THEN a ELSE b

Min(a, b) == IF a < b THEN a ELSE b

\* str.split(sep)
RECURSIVE split(_, _)
split(s, sep) ==
    IF ~Contains(s, sep) THEN <<s>>
    ELSE LET i == CHOOSE i \in 1..Len(s) : s[i] = sep /\ \A j \in 1..(i - 1) : s[j] # sep
         IN <<SubSeq(s, 1, i - 1)>> \o split(SubSeq(s, i + 1, Len(s)), sep)

\* a variant that tags every citation with the first page
handle_text_match_FirstPage(self, text, match) ==
    LET href == make_href(self, match) IN
    IF href # ""
    THEN [self EXCEPT !.citations =
             Append(@, ExtractedCitation(
                 match.text, match.start, match.end, href, Some(0),
                 Some(Slice(match.string, Max(match.start - text_prefix_length, 0), match.start)),
                 Some(Slice(match.string, match.end,
                            Min(match.end + text_suffix_length, Len(match.string))))))]
    ELSE self

\* a variant whose prefix is everything before the match
handle_text_match_WholePrefix(self, text, match) ==
    LET href == make_href(self, match) IN
    IF href # ""
    THEN [self EXCEPT !.citations =
             Append(@, ExtractedCitation(
                 match.text, match.start, match.end, href, self.pagenum,
                 Some(Slice(match.string, 0, match.start)),
                 Some(Slice(match.string, match.end,
                            Min(match.end + text_suffix_length, Len(match.string))))))]
    ELSE self

\* CitationMatcher.handle_text_match
handle_text_match(self, text, match) ==
    LET href == make_href(self, match) IN
    IF href # ""
    THEN [self EXCEPT !.citations =
             Append(@, ExtractedCitation(
                 match.text, match.start, match.end, href, self.pagenum,
                 Some(Slice(match.string, Max(match.start - text_prefix_length, 0), match.start)),
                 Some(Slice(match.string, match.end,
                            Min(match.end + text_suffix_length, Len(match.string))))))]
    ELSE self

\* run_text_extraction, over the matches still to come
RECURSIVE ExtractEach(_, _, _)
ExtractEach(self, text, matches) ==
    IF matches = <<>> THEN self
    ELSE ExtractEach(IF is_text_match_valid(self, text, Head(matches))
                     THEN handle_text_match(self, text, Head(matches)) ELSE self,
                     text, Tail(matches))

run_text_extraction(self, text) == ExtractEach(self, text, find_text_matches(text))

(***************************************************************************)
(* Inputs of the matcher: a tree or a plain text, made of at most MaxWords *)
(* words that are spread, in order, over the texts and tails of the tree.  *)
(***************************************************************************)
MaxMatchNodes == 3

MaxWords == 3

Vocab == {<<"A", "1">>, <<"A", "2">>, <<"A">>, <<" ">>, <<")">>, <<"(", "2">>}

PageBreak == <<"\f">>

\* the document being processed is act 1 of 2000
TheFrbrUri == [country |-> "za", doctype |-> "act", date |-> "2000", number |-> "1"]

HtmlTags == {"a", "b"}

XmlTags == {Clark(AknNs, "body"), Clark(AknNs, "ref")}

NonDecreasing(m, k) == {f \in [1..m -> 1..k] : \A i \in 1..(m - 1) : f[i] <= f[i + 1]}

\* the words placed at slot j, joined
RECURSIVE SlotText(_, _, _, _)
SlotText(ws, at, j, i) ==
    IF i > Len(ws) THEN <<>>
    ELSE (IF at[i] = j THEN ws[i] ELSE <<>>) \o SlotText(ws, at, j, i + 1)

\* slot i is the text of element i, slot n + i - 1 the tail of element i
MatchTree(par, tg, ws, at, n) ==
    MkDom(par, tg, [i \in 1..n |-> SlotText(ws, at, i, 1)],
          [i \in 1..n |-> SlotText(ws, at, n + i - 1, 1)], n)

InitMatch ==
    /\ \/ /\ \E n \in 2..MaxMatchNodes : \E par \in Shapes(n) :
             \E rt \in {"div", Clark(AknNs, "akomaNtoso")} :
             \E tg \in [2..n -> IF rt = "div" THEN HtmlTags ELSE XmlTags] :
             \E m \in 0..MaxWords : \E ws \in [1..m -> Vocab] :
             \E at \in NonDecreasing(m, 2 * n - 1) :
                dom = MatchTree(par, [i \in 1..n |-> IF i = Root THEN rt ELSE tg[i]], ws, at, n)
          /\ todo = Absent
       \/ /\ dom = <<Element("div", {}, NoText, NoText)>>
          /\ \E m \in 1..MaxWords : \E ws \in [1..m -> Vocab \cup {PageBreak}] :
                todo = Some(SlotText(ws, [i \in 1..m |-> 1], 1, 1))
    /\ orig = dom
    /\ prev = dom
    /\ pc = "idle"
    /\ cur = None
    /\ round = 1
    /\ once = <<>>
    /\ matcher = NewMatcher
    /\ ancs = <<>>
    /\ given = <<>>
    /\ hrefs = <<>>

\* markup_html_matches(frbr_uri, root), up to the loop of run_dom_matching
MarkupHtmlMatches ==
    /\ pc = "idle" /\ todo = Absent /\ nsmap(dom, Root) = Absent
    /\ matcher' = setup([matcher EXCEPT !.marker_tag = html_marker_tag,
                                        !.ancestor_xpath = html_ancestor_xpath,
                                        !.candidate_xpath = html_candidate_xpath],
                        dom, TheFrbrUri, Absent, Some(Root))
    /\ ancs' = ancestor_nodes(matcher', dom)
    /\ pc' = "run_dom_matching"
    /\ UNCHANGED <<given, hrefs, dom, orig, prev, todo, cur, round, once>>

\* markup_xml_matches(frbr_uri, root), up to the loop of run_dom_matching
MarkupXmlMatches ==
    /\ pc = "idle" /\ todo = Absent /\ nsmap(dom, Root) # Absent
    /\ matcher' = setup([matcher EXCEPT !.marker_tag = xml_marker_tag,
                                        !.ancestor_xpath = xml_ancestor_xpath,
                                        !.candidate_xpath = xml_candidate_xpath],
                        dom, TheFrbrUri, Absent, Some(Root))
    /\ ancs' = ancestor_nodes(matcher', dom)
    /\ pc' = "run_dom_matching"
    /\ UNCHANGED <<given, hrefs, dom, orig, prev, todo, cur, round, once>>

\* line 162-163: the next ancestor, and its candidates as the xpath lists them now
NextAncestor ==
    /\ pc = "run_dom_matching" /\ todo = <<>> /\ ancs # <<>>
    /\ todo' = candidate_text_nodes(matcher, dom, Head(ancs))
    /\ ancs' = Tail(ancs)
    /\ UNCHANGED <<given, hrefs, dom, orig, prev, pc, cur, round, once, matcher>>

\* one iteration of the inner loop of run_dom_matching
CandidateStep ==
    /\ pc = "run_dom_matching" /\ todo # <<>>
    /\ LET r == ScanCandidate(matcher, dom, Head(todo)) IN
          dom' = r.dom /\ matcher' = r.self
    /\ prev' = dom
    /\ cur' = Head(todo).getparent
    /\ todo' = Tail(todo)
    /\ UNCHANGED <<given, hrefs, orig, pc, round, once, ancs>>

DomDone ==
    /\ pc = "run_dom_matching" /\ todo = <<>> /\ ancs = <<>>
    /\ pc' = "done"
    /\ UNCHANGED <<given, hrefs, dom, orig, prev, todo, cur, round, once, matcher, ancs>>

\* extract_text_matches(frbr_uri, text), up to the loop over the pages
ExtractTextMatches ==
    /\ pc = "idle" /\ todo # Absent
    /\ matcher' = setup(matcher, dom, TheFrbrUri, todo, Absent)
    /\ todo' = split(todo[1], "\f")
    /\ pc' = "extract_paged_text_matches"
    /\ UNCHANGED <<given, hrefs, dom, orig, prev, cur, round, once, ancs>>

\* one iteration of the loop of extract_paged_text_matches
PageStep ==
    /\ pc = "extract_paged_text_matches" /\ todo # <<>>
    /\ LET i == Len(split(matcher.text[1], "\f")) - Len(todo) IN
          /\ matcher' = run_text_extraction([matcher EXCEPT !.pagenum = Some(i)], Head(todo))
          /\ cur' = i
    /\ todo' = Tail(todo)
    /\ UNCHANGED <<given, hrefs, dom, orig, prev, pc, round, once, ancs>>

TextDone ==
    /\ pc = "extract_paged_text_matches" /\ todo = <<>>
    /\ pc' = "done"
    /\ UNCHANGED <<given, hrefs, dom, orig, prev, todo, cur, round, once, matcher, ancs>>

NextMatch ==
    \/ MarkupHtmlMatches \/ MarkupXmlMatches \/ NextAncestor \/ CandidateStep \/ DomDone
    \/ ExtractTextMatches \/ PageStep \/ TextDone

SpecMatch == InitMatch /\ [][NextMatch]_vars

(***************************************************************************)
(* Properties of SplitPOnBr                                                *)
(***************************************************************************)
Done == pc = "done"

\* a br has just been processed: cur is that br, prev the tree before
Stepped == pc = "SplitPOnBr" /\ cur # None

OrigIds == 1..Len(orig)

Reachable(d) == Range(Flat(d, Root))

BrsUnder(d, p) == {n \in Descendants(d, p) : d[n].tag = "br"}

OrigPs == {n \in OrigIds : orig[n].tag = "p"}

RECURSIVE InnerAll(_, _)
InnerAll(d, ns) == IF ns = <<>> THEN <<>> ELSE Inner(d, Head(ns)) \o InnerAll(d, Tail(ns))

\* p and the k siblings after it, as far as they exist
Results(d, p, k) ==
    LET ks == d[d[p].parent].kids
        i  == IndexOf(ks, p)
    IN SubSeq(ks, i, IF i + k <= Len(ks) THEN i + k ELSE Len(ks))

\* the siblings after n
Followers(d, n) ==
    LET ks == d[d[n].parent].kids IN SubSeq(ks, IndexOf(ks, n) + 1, Len(ks))

\* the siblings before n
Preceders(d, n) ==
    LET ks == d[d[n].parent].kids IN SubSeq(ks, 1, IndexOf(ks, n) - 1)

IsPrefix(s, t) == Len(s) <= Len(t) /\ SubSeq(t, 1, Len(s)) = s

StepChain == ChainOf(prev, prev[cur].parent)

StepP == POf(prev, prev[cur].parent)

StepNewP == Len(prev) + 1

\* the fresh element that mirrors StepChain[i]
StepNew(i) == StepNewP + i

StepInnermost == IF StepChain = <<>> THEN StepNewP ELSE StepNew(1)

\* the count of C4 alone: k + 1 consecutive p for a p with k br, and no br left in a p
SplitCounts ==
    Done =>
        /\ \A p \in OrigPs :
              LET k == Cardinality(BrsUnder(orig, p))
                  res == Results(dom, p, k)
              IN /\ Len(res) = k + 1
                 /\ \A j \in 1..Len(res) : dom[res[j]].tag = "p" /\ (j > 1 => res[j] \notin OrigIds)
        /\ Cardinality({n \in Reachable(dom) : dom[n].tag = "p"})
              = Cardinality(OrigPs) + Len(BrList(orig))
        /\ BrList(dom) = <<>>

\* C4: a p that holds k br is replaced by k + 1 consecutive p siblings which hold its
\* content in document order, and no br remains inside a p.
C4_SplitIntoKPlusOne ==
    /\ SplitCounts
    /\ Done => \A p \in OrigPs :
                  InnerAll(dom, Results(dom, p, Cardinality(BrsUnder(orig, p)))) = Inner(orig, p)

\* C5: the pass keeps the text and the non-br elements of the tree in their order.
C5_ContentPreserved ==
    Done =>
        /\ Inner(dom, Root) = Inner(orig, Root)
        /\ SelectSeq(Flat(dom, Root), LAMBDA n : n \in OrigIds /\ dom[n].tag # "br")
              = SelectSeq(Flat(orig, Root), LAMBDA n : orig[n].tag # "br")

\* C6: all following siblings of the br end up, in order and with their tails, in the
\* innermost fresh element, after the br's trailing text.
C6_AllSiblingsMoved ==
    Stepped =>
        /\ dom[StepInnermost].text = prev[cur].tail
        /\ dom[StepInnermost].kids = Followers(prev, cur)
        /\ \A f \in Range(Followers(prev, cur)) : dom[f].tail = prev[f].tail

\* C7: with a chain of any depth, the top ancestor's tail moves to the fresh top
\* ancestor and what followed the top ancestor in the p follows the fresh chain.
C7_TopAncestorTail ==
    (Stepped /\ StepChain # <<>>) =>
        LET n   == Len(StepChain)
            top == StepChain[n]
        IN /\ dom[StepNew(n)].tail = prev[top].tail
           /\ dom[top].tail = NoText
           /\ dom[StepNewP].kids = <<StepNew(n)>> \o Followers(prev, top)

\* C8: each split hands the p's tail to the fresh p and clears it on the original, so
\* after the pass only the last p that came from an original p carries its tail.
C8_TailInheritance ==
    /\ Stepped => /\ dom[StepNewP].tail = prev[StepP].tail
                  /\ dom[StepP].tail = NoText
                  /\ getnext(dom, StepP) = StepNewP
    /\ Done => \A p \in OrigPs :
                  LET k   == Cardinality(BrsUnder(orig, p))
                      res == Results(dom, p, k)
                  IN \A j \in 1..Len(res) :
                        dom[res[j]].tail = IF j = k + 1 THEN orig[p].tail ELSE NoText

C8_Witness ==
    /\ Done
    /\ \E p \in OrigPs : Cardinality(BrsUnder(orig, p)) >= 2 /\ orig[p].tail # NoText

\* C9: the fresh p starts with a chain of fresh, attribute-free elements that mirrors
\* the tags between the p and the br, the innermost holding the br's tail as its text;
\* the original chain keeps what preceded the br.
C9_MirroredChain ==
    (Stepped /\ StepChain # <<>>) =>
        LET n == Len(StepChain) IN
        /\ dom[StepNewP].tag = "p" /\ dom[StepNewP].text = NoText
        /\ dom[StepNewP].kids[1] = StepNew(n)
        /\ \A i \in 1..n :
              /\ dom[StepNew(i)].tag = prev[StepChain[i]].tag
              /\ dom[StepNew(i)].attrib = {}
              /\ StepNew(i) \notin DOMAIN prev
              /\ dom[StepNew(i)].parent = IF i = n THEN StepNewP ELSE StepNew(i + 1)
              /\ i > 1 => dom[StepNew(i)].kids = <<StepNew(i - 1)>> /\ dom[StepNew(i)].text = NoText
        /\ dom[StepNew(1)].text = prev[cur].tail
        /\ \A i \in 1..n :
              LET a == StepChain[i] IN
              /\ dom[a].tag = prev[a].tag /\ dom[a].attrib = prev[a].attrib
              /\ dom[a].parent = prev[a].parent
              /\ dom[a].text = prev[a].text
              /\ IsPrefix(Preceders(prev, IF i = 1 THEN cur ELSE StepChain[i - 1]), dom[a].kids)
              /\ i > 1 => IsPrefix(Preceders(prev, StepChain[i - 1]) \o <<StepChain[i - 1]>>,
                                   dom[a].kids)

C9_Witness ==
    /\ Stepped
    /\ Len(StepChain) >= 2
    /\ prev[StepChain[1]].tag # prev[StepChain[2]].tag
    /\ prev[cur].tail # NoText

(***************************************************************************)
(* Properties of the matcher                                               *)
(***************************************************************************)
\* a DOM call is under way or over
InDomCall == pc \in {"run_dom_matching", "done"} /\ matcher.root # Absent

DomCallDone == pc = "done" /\ matcher.root # Absent

TextCallDone == pc = "done" /\ matcher.text # Absent

\* the elements the call made, in the order it made them
Made == [i \in 1..(Len(dom) - Len(orig)) |-> Len(orig) + i]

\* the elements of s that are in set S, in the order of s
Only(s, S) == SelectSeq(s, LAMBDA n : n \in S)

\* the strings the candidate selector picks in the tree the call was given, each once,
\* in document order
OrigCandidates ==
    LET regions == Range(ancestor_nodes(matcher, orig)) IN
    SelectSeq(TextNodes(orig, Root),
              LAMBDA c : \E a \in regions :
                            c \in Range(candidate_text_nodes(matcher, orig, a)))

\* the valid occurrences of the pattern in s
ValidMatches(s) ==
    SelectSeq(find_text_matches(s), LAMBDA m : is_node_match_valid(matcher, None, m))

RECURSIVE OccurrenceTexts(_)
OccurrenceTexts(cs) ==
    IF cs = <<>> THEN <<>>
    ELSE LET ms == ValidMatches(StringOf(orig, Head(cs))) IN
         [i \in 1..Len(ms) |-> ms[i].text] \o OccurrenceTexts(Tail(cs))

\* C1: a DOM scan keeps the text of the tree and its elements; what it adds are leaf
\* marker elements, each holding one matched substring as its own text.
C1_TextPreserved ==
    InDomCall =>
        /\ Inner(dom, Root) = Inner(orig, Root)
        /\ Only(Flat(dom, Root), OrigIds) = Flat(orig, Root)
        /\ \A n \in OrigIds :
              /\ dom[n].tag = orig[n].tag /\ dom[n].attrib = orig[n].attrib
              /\ dom[n].parent = orig[n].parent
        /\ \A n \in Range(Made) :
              /\ n \in Reachable(dom)
              /\ dom[n].tag = matcher.marker_tag /\ dom[n].kids = <<>>
              /\ LET ms == find_text_matches(dom[n].text) IN
                    Len(ms) = 1 /\ ms[1].start = 0 /\ ms[1].end = Len(dom[n].text)

C1_Witness ==
    /\ DomCallDone
    /\ \E n1, n2 \in Range(Made) :
          /\ getprevious(dom, n1) = None /\ dom[n1].tail = <<")">>
          /\ getprevious(dom, n2) \in OrigIds

\* C2: a DOM scan inserts one marker element per valid occurrence of the pattern in
\* the candidate strings of the tree, each holding that occurrence's text.
C2_OnePerOccurrence ==
    DomCallDone =>
        /\ Len(Made) = Len(OccurrenceTexts(OrigCandidates))
        /\ [i \in 1..Len(Made) |-> dom[Only(Flat(dom, Root), Range(Made))[i]].text]
              = OccurrenceTexts(OrigCandidates)

\* a pattern occurrence in s whose href is the document's own
SelfCited(s) ==
    \E i \in 1..Len(find_text_matches(s)) :
        make_href(matcher, find_text_matches(s)[i]) = work_uri(TheFrbrUri)

\* C3: no citation and no marker element is made for a match whose href is the work
\* of the document itself, in a DOM scan and in a plain-text scan.
C3_NoSelfCitation ==
    /\ \A i \in 1..Len(matcher.citations) : matcher.citations[i].href # work_uri(TheFrbrUri)
    /\ \A n \in Range(Made) :
          /\ <<"href", work_uri(TheFrbrUri)>> \notin dom[n].attrib
          /\ ~SelfCited(dom[n].text)
    /\ TextCallDone =>
          \A p \in Range(split(matcher.text[1], "\f")) :
             \A m \in Range(find_text_matches(p)) :
                (make_href(matcher, m) # work_uri(TheFrbrUri))
                   <=> \E i \in 1..Len(matcher.citations) :
                          /\ matcher.citations[i].text = m.text
                          /\ matcher.citations[i].href = make_href(matcher, m)

C3_Witness ==
    /\ TextCallDone
    /\ matcher.citations # <<>>
    /\ \E p \in Range(split(matcher.text[1], "\f")) : SelfCited(p)

(***************************************************************************)
(* Order, skipping and eligibility in a DOM scan                           *)
(***************************************************************************)
\* the position of element n in the document
PosOf(d, n) == IndexOf(Flat(d, Root), n)

\* C11: the citations of a DOM scan are in the document order of their marker
\* elements: the marker of an earlier citation precedes the marker of a later one.
C11_CitationsInDocumentOrder ==
    DomCallDone =>
        /\ Len(matcher.citations) = Len(Made)
        /\ \A i, j \in 1..Len(Made) :
              i < j => PosOf(dom, Made[i]) < PosOf(dom, Made[j])

(***************************************************************************)
(* Href construction, for the flavors of CitationMatcher.  A group value   *)
(* is a sequence of characters, a digit is the character of its numeral.   *)
(***************************************************************************)
\* the characters of s as one string
RECURSIVE Str(_)
Str(s) == IF s = <<>> THEN "" ELSE Head(s) \o Str(Tail(s))

DigitVal(c) == CHOOSE v \in 0..9 : ToString(v) = c

\* int(s) for a sequence of digits
RECURSIVE int(_)
int(s) == IF s = <<>> THEN 0 ELSE int(SubSeq(s, 1, Len(s) - 1)) * 10 + DigitVal(s[Len(s)])

\* str(n) for n >= 0
RECURSIVE str(_)
str(n) == IF n < 10 THEN <<ToString(n)>> ELSE str(n \div 10) \o <<ToString(n % 10)>>

\* pattern.format(**args) for a pattern of literals and {fields}: a field that args
\* does not hold raises KeyError
RECURSIVE format(_, _)
format(pattern, args) ==
    IF pattern = <<>> THEN [raised |-> FALSE, value |-> ""]
    ELSE LET part == Head(pattern)
             rest == format(Tail(pattern), args)
         IN IF "field" \in DOMAIN part
            THEN IF part.field \in DOMAIN args /\ ~rest.raised
                 THEN [raised |-> FALSE, value |-> Str(args[part.field]) \o rest.value]
                 ELSE [raised |-> TRUE, value |-> ""]
            ELSE [rest EXCEPT !.value = part.lit \o @]

\* AchprResolutionMatcher.href_pattern
Achpr_href_pattern ==
    <<[lit |-> "/akn/aa-au/statement/resolution/achpr/"], [field |-> "year"],
      [lit |-> "/"], [field |-> "num"]>>

\* ActMatcher.href_pattern
Act_href_pattern ==
    <<[lit |-> "/akn/"], [field |-> "juri"], [lit |-> "/act/"], [field |-> "year"],
      [lit |-> "/"], [field |-> "num"]>>

\* CitationMatcher.href_pattern_args: the group mapping of the match itself
super_href_pattern_args(self, m) == m.groups

\* a variant that treats 80 as the other years above it
Achpr_href_pattern_args_From80(self, m) ==
    LET args == super_href_pattern_args(self, m)
        year == int(args.year)
    IN IF year < 100
       THEN [args EXCEPT !.year = str(IF year >= 80 THEN 1900 + year ELSE 2000 + year)]
       ELSE args

\* a variant that expands the year whatever its size
Achpr_href_pattern_args_AnyYear(self, m) ==
    LET args == super_href_pattern_args(self, m)
        year == int(args.year)
    IN [args EXCEPT !.year = str(IF year > 80 THEN 1900 + year ELSE 2000 + year)]

\* AchprResolutionMatcher.href_pattern_args
Achpr_href_pattern_args(self, m) ==
    LET args == super_href_pattern_args(self, m)
        year == int(args.year)
    IN IF year < 100
       THEN [args EXCEPT !.year = str(IF year > 80 THEN 1900 + year ELSE 2000 + year)]
       ELSE args

\* ActMatcher.href_pattern_args, on character sequences
Act_href_pattern_args(self, m) ==
    [x \in DOMAIN super_href_pattern_args(self, m) \cup {"juri"} |->
        IF x = "juri" THEN self.frbr_uri.country ELSE super_href_pattern_args(self, m)[x]]

\* href_pattern_args of the class of self; the mapping it returns is match.groups
\* itself, changed in place
ClassArgs(self, m) ==
    CASE self.cls = "AchprResolutionMatcher" -> Achpr_href_pattern_args(self, m)
      [] self.cls = "ActMatcher" -> Act_href_pattern_args(self, m)
      [] OTHER -> super_href_pattern_args(self, m)

\* CitationMatcher.make_href for the class of self
ClassMakeHref(self, m) == format(self.href_pattern, ClassArgs(self, m))

Digits == {ToString(v) : v \in 0..9}

\* (?P<year>\d{2,4})
MinYearDigits == 2

MaxYearDigits == 4

\* the calls of make_href on one match
MaxCalls == 3

\* the classes: the two flavors, and a subclass of CitationMatcher that gives the
\* href_pattern of ActMatcher and keeps the inherited href_pattern_args
Classes ==
    {[cls |-> "AchprResolutionMatcher", href_pattern |-> Achpr_href_pattern],
     [cls |-> "ActMatcher", href_pattern |-> Act_href_pattern],
     [cls |-> "CitationMatcher", href_pattern |-> Act_href_pattern]}

\* the matches of the class's pattern, by their groups
GroupsOf(cls) ==
    IF cls = "AchprResolutionMatcher"
    THEN {[num |-> <<"7">>, year |-> y] :
             y \in UNION {[1..n -> Digits] : n \in MinYearDigits..MaxYearDigits}}
    ELSE {[num |-> <<n>>, year |-> <<"2", "0", "0", "0">>, ref |-> <<n>>] : n \in Refs}

InitHref ==
    /\ \E c \in Classes : \E g \in GroupsOf(c.cls) :
          /\ matcher = [cls |-> c.cls, href_pattern |-> c.href_pattern,
                        frbr_uri |-> [TheFrbrUri EXCEPT !.country = <<"z", "a">>]]
          /\ given = [groups |-> g]
    /\ hrefs = <<>>
    /\ pc = "make_href"
    /\ orig = given
    /\ dom = <<>> /\ prev = <<>> /\ todo = <<>> /\ cur = None
    /\ round = 1 /\ once = <<>> /\ ancs = <<>>

\* one call of make_href(match): the href, or KeyError
MakeHref ==
    /\ pc = "make_href" /\ Len(hrefs) < MaxCalls
    /\ LET r == ClassMakeHref(matcher, given) IN
          IF r.raised
          THEN pc' = "KeyError" /\ UNCHANGED <<given, hrefs>>
          ELSE /\ hrefs' = Append(hrefs, r.value)
               /\ given' = [given EXCEPT !.groups = ClassArgs(matcher, given)]
               /\ pc' = pc
    /\ UNCHANGED <<dom, orig, prev, todo, cur, round, once, matcher, ancs>>

HrefDone ==
    /\ pc = "make_href" /\ Len(hrefs) = MaxCalls
    /\ pc' = "done"
    /\ UNCHANGED <<given, hrefs, dom, orig, prev, todo, cur, round, once, matcher, ancs>>

NextHref == MakeHref \/ HrefDone

SpecHref == InitHref /\ [][NextHref]_vars

\* what handle_node_match does with a match that is not valid: nothing
SkipsInvalidMatch ==
    InDomCall =>
        \A n \in Reachable(dom) : \A m \in Range(find_text_matches(dom[n].text)) :
            ~is_node_match_valid(matcher, n, m)
               => handle_node_match(matcher, dom, n, m, FALSE)
                     = [self |-> matcher, new_node |-> None, dom |-> dom]

AchprCalled == pc # "KeyError" /\ matcher.cls = "AchprResolutionMatcher" /\ hrefs # <<>>

\* C15: a captured year below 100 becomes 1900 + year when it is above 80 and
\* 2000 + year otherwise; a captured year of 100 or more is used as it is.
C15_TwoDigitYear ==
    AchprCalled =>
        LET y    == int(orig.groups.year)
            used == given.groups.year
        IN /\ hrefs[1] = "/akn/aa-au/statement/resolution/achpr/" \o Str(used) \o "/"
                            \o Str(orig.groups.num)
           /\ (y < 100 /\ y > 80) => int(used) = 1900 + y /\ Len(used) = 4
           /\ (y < 100 /\ y <= 80) => int(used) = 2000 + y /\ Len(used) = 4
           /\ y >= 100 => used = orig.groups.year
           /\ orig.groups.year = <<"0", "5">> => used = <<"2", "0", "0", "5">>
           /\ orig.groups.year = <<"9", "2">> => used = <<"1", "9", "9", "2">>
           /\ orig.groups.year = <<"8", "0">> => used = <<"2", "0", "8", "0">>
           /\ orig.groups.year = <<"8", "1">> => used = <<"1", "9", "8", "1">>

C15_Witness ==
    /\ AchprCalled
    /\ orig.groups.year = <<"8", "0">>
    /\ hrefs[1] = "/akn/aa-au/statement/resolution/achpr/2080/7"

\* the text node of the tree as given that holds the text of the made element n: the
\* tail of the original element before it, or the text of its parent
RECURSIVE OriginOf(_, _)
OriginOf(d, n) ==
    LET p == getprevious(d, n) IN
    IF p = None THEN [getparent |-> d[n].parent, is_tail |-> FALSE]
    ELSE IF p \in OrigIds THEN [getparent |-> p, is_tail |-> TRUE]
    ELSE OriginOf(d, p)

\* C13: a marker element is inserted only below an element the ancestor selector
\* selects, and only into a string the candidate selector selects.
C13_OnlyEligibleText ==
    DomCallDone =>
        \A n \in Range(Made) :
            /\ \E a \in Range(Ancestors(dom, n)) : a \in Range(ancestor_nodes(matcher, orig))
            /\ OriginOf(dom, n) \in Range(OrigCandidates)

(***************************************************************************)
(* Several top-level calls on one matcher instance.  The calls are run     *)
(* step by step by the actions of SpecMatch; between two calls NewCall     *)
(* hands the instance a new input.  The operators below are the same calls *)
(* as functions of the instance and the input, used to say what a fresh    *)
(* instance produces.                                                      *)
(***************************************************************************)

\* the inner loop of run_dom_matching, over the candidates still to come
RECURSIVE ScanCandidates(_, _, _)
ScanCandidates(self, d, candidates) ==
    IF candidates = <<>> THEN [self |-> self, dom |-> d]
    ELSE LET r == ScanCandidate(self, d, Head(candidates)) IN
         ScanCandidates(r.self, r.dom, Tail(candidates))

\* run_dom_matching, over the ancestors still to come
RECURSIVE run_dom_matching(_, _, _)
run_dom_matching(self, d, ancestors) ==
    IF ancestors = <<>> THEN [self |-> self, dom |-> d]
    ELSE LET r == ScanCandidates(self, d, candidate_text_nodes(self, d, Head(ancestors))) IN
         run_dom_matching(r.self, r.dom, Tail(ancestors))

markup_dom_matches(self, d, frbr_uri) ==
    LET s == setup(self, d, frbr_uri, Absent, Some(Root)) IN
    run_dom_matching(s, d, ancestor_nodes(s, d))

markup_html_matches(self, d, frbr_uri) ==
    markup_dom_matches([self EXCEPT !.marker_tag = html_marker_tag,
                                    !.ancestor_xpath = html_ancestor_xpath,
                                    !.candidate_xpath = html_candidate_xpath], d, frbr_uri)

markup_xml_matches(self, d, frbr_uri) ==
    markup_dom_matches([self EXCEPT !.marker_tag = xml_marker_tag,
                                    !.ancestor_xpath = xml_ancestor_xpath,
                                    !.candidate_xpath = xml_candidate_xpath], d, frbr_uri)

\* extract_paged_text_matches, over the pages still to come; i is the page index
RECURSIVE extract_paged_text_matches(_, _, _)
extract_paged_text_matches(self, pages, i) ==
    IF pages = <<>> THEN self
    ELSE extract_paged_text_matches(
             run_text_extraction([self EXCEPT !.pagenum = Some(i)], Head(pages)),
             Tail(pages), i + 1)

extract_text_matches(self, d, frbr_uri, text) ==
    LET s == setup(self, d, frbr_uri, Some(text), Absent) IN
    extract_paged_text_matches(s, split(text, "\f"), 0)

MaxCallNodes == 2

MaxCallWords == 2

MaxSeqCalls == 2

\* the inputs of one call: a tree (text Absent) or a plain text
CallInputs(d, t) ==
    \/ /\ \E rt \in {"div", Clark(AknNs, "akomaNtoso")} :
          \E tg \in [2..MaxCallNodes -> IF rt = "div" THEN HtmlTags ELSE XmlTags] :
          \E par \in Shapes(MaxCallNodes) :
          \E m \in 0..MaxCallWords : \E ws \in [1..m -> Vocab] :
          \E at \in NonDecreasing(m, 2 * MaxCallNodes - 1) :
             d = MatchTree(par, [i \in 1..MaxCallNodes |-> IF i = Root THEN rt ELSE tg[i]],
                           ws, at, MaxCallNodes)
       /\ t = Absent
    \/ /\ d = <<Element("div", {}, NoText, NoText)>>
       /\ \E m \in 1..MaxCallWords : \E ws \in [1..m -> Vocab \cup {PageBreak}] :
             t = Some(SlotText(ws, [i \in 1..m |-> 1], 1, 1))

InitCalls ==
    /\ CallInputs(dom, todo)
    /\ orig = dom
    /\ prev = dom
    /\ pc = "idle"
    /\ cur = None
    /\ round = 1
    /\ once = <<>>
    /\ matcher = NewMatcher
    /\ ancs = <<>>
    /\ given = [root |-> dom, text |-> todo]
    /\ hrefs = <<>>

\* the caller reads the result of the call and calls the same instance again;
\* once remembers what the instance held when the earlier call returned
NewCall ==
    /\ pc = "done" /\ round < MaxSeqCalls
    /\ CallInputs(dom', todo')
    /\ orig' = dom'
    /\ prev' = dom'
    /\ given' = [root |-> dom', text |-> todo']
    /\ once' = <<[citations |-> Len(matcher.citations), pagenum |-> matcher.pagenum,
                  marker_tag |-> matcher.marker_tag]>>
    /\ pc' = "idle"
    /\ cur' = None
    /\ round' = round + 1
    /\ UNCHANGED <<matcher, ancs, hrefs>>

NextCalls == NextMatch \/ NewCall

SpecCalls == InitCalls /\ [][NextCalls]_vars

\* what a fresh instance holds after the call of given, and the tree it leaves
FreshCall ==
    IF given.text # Absent
    THEN [self |-> extract_text_matches(NewMatcher, given.root, TheFrbrUri, given.text[1]),
          dom |-> given.root]
    ELSE IF nsmap(given.root, Root) = Absent
         THEN markup_html_matches(NewMatcher, given.root, TheFrbrUri)
         ELSE markup_xml_matches(NewMatcher, given.root, TheFrbrUri)

\* C14: when a top-level call on an instance that has served earlier calls
\* returns, the instance holds what a fresh instance would hold: exactly the
\* citations of this call, the page index of this call (none after a tree,
\* the last page after a text), and after a tree call the marker tag and
\* selectors of this call's flavor, with the namespace applied once.
C14_StateResetPerCall ==
    pc = "done" =>
        LET f == FreshCall IN
        /\ matcher.citations = f.self.citations
        /\ matcher.pagenum = f.self.pagenum
        /\ matcher.frbr_uri = f.self.frbr_uri
        /\ matcher.text = given.text
        /\ dom = f.dom
        /\ given.text # Absent =>
              /\ matcher.root = Absent
              /\ matcher.pagenum = Some(Len(split(given.text[1], "\f")) - 1)
              /\ \A c \in Range(matcher.citations) :
                    c.target_id[1] \in 0..(Len(split(given.text[1], "\f")) - 1)
        /\ given.text = Absent =>
              /\ matcher.root = Some(Root)
              /\ matcher.pagenum = Absent
              /\ matcher.ns = nsmap(given.root, Root)
              /\ matcher.marker_tag = f.self.marker_tag
              /\ matcher.ancestor_xpath = f.self.ancestor_xpath
              /\ matcher.candidate_xpath = f.self.candidate_xpath
              /\ matcher.marker_tag =
                    IF matcher.ns = Absent THEN "a" ELSE Clark(AknNs, "ref")
              /\ Len(matcher.citations) = Len(Made)

\* an XML call that made a citation, after an earlier call that had made some
\* with another marker tag or on a later page
C14_Witness ==
    /\ pc = "done" /\ round > 1 /\ given.text = Absent
    /\ matcher.ns # Absent /\ Len(matcher.citations) = 1
    /\ once[1].citations = 2
    /\ once[1].marker_tag = "a"

(***************************************************************************)
(* The trailing parenthesis                                                *)
(***************************************************************************)

\* the text the pattern matches at offset pos of s, before any correction
RawText(s, pos) == LET m == PatternAt(s, pos)[1] IN Slice(s, m.start, m.end)

\* the raw text ends with ")" and holds no "("
OverMatched(raw) == EndsWith(raw, ")") /\ ~Contains(raw, "(")

\* text, start and end are what ActMatcher stores for the raw match at start of s
Corrected(s, text, start, end) ==
    /\ PatternAt(s, start) # Absent
    /\ LET raw == RawText(s, start) IN
          IF OverMatched(raw)
          THEN text = Slice(raw, 0, Len(raw) - 1) /\ end = start + Len(raw) - 1
          ELSE text = raw /\ end = start + Len(raw)

\* C16: a citation whose raw match ends with ")" and holds no "(" stores the raw
\* text without its last character and the raw end minus one; any other citation
\* stores the raw text and offsets.  In a tree the marker element holds the stored
\* text and a dropped ")" is the first character of the text after the marker.
C16_TrailingParenthesis ==
    /\ TextCallDone =>
          \A c \in Range(matcher.citations) :
              Corrected(split(matcher.text[1], "\f")[c.target_id[1] + 1], c.text, c.start, c.end)
    /\ DomCallDone =>
          \A i \in 1..Len(Made) :
              LET n == Made[i]
                  c == matcher.citations[i]
                  s == dom[n].text \o dom[n].tail
              IN /\ dom[n].text = c.text
                 /\ c.end - c.start = Len(c.text)
                 /\ Corrected(s, c.text, 0, Len(c.text))
                 /\ OverMatched(RawText(s, 0)) => dom[n].tail # <<>> /\ dom[n].tail[1] = ")"

\* a tree call made a marker for a raw match "Act 2 of 2000)"; the ")" follows it
C16_Witness ==
    /\ DomCallDone /\ Len(Made) = 1
    /\ dom[Made[1]].text = <<"A", "2">>
    /\ dom[Made[1]].tail = <<")">>
    /\ matcher.citations[1].end = matcher.citations[1].start + 2

(***************************************************************************)
(* Pages of a plain text                                                   *)
(***************************************************************************)

\* the number of form feeds among the first k characters of s
FormFeeds(s, k) == Cardinality({i \in 1..k : s[i] = "\f"})

\* the offsets of s at which a page starts
PageStarts(s) == {0} \cup {i \in 1..Len(s) : s[i] = "\f"}

\* C17: after a plain-text call every citation carries the zero-based index of a
\* page of the text, its offsets count from the start of that page, where its
\* text stands with no form feed before it on the page; the citations are in
\* order of page and, within a page, of offset, and do not overlap.
C17_PagedOffsets ==
    TextCallDone =>
        LET s  == matcher.text[1]
            cs == matcher.citations
        IN /\ \A c \in Range(cs) :
                 /\ c.target_id # Absent
                 /\ c.start < c.end
                 /\ \E off \in PageStarts(s) :
                       /\ FormFeeds(s, off) = c.target_id[1]
                       /\ off + c.end <= Len(s)
                       /\ Slice(s, off + c.start, off + c.end) = c.text
                       /\ FormFeeds(s, off + c.end) = FormFeeds(s, off)
           /\ \A i, j \in 1..Len(cs) :
                 i < j => \/ cs[i].target_id[1] < cs[j].target_id[1]
                          \/ /\ cs[i].target_id = cs[j].target_id
                             /\ cs[i].end <= cs[j].start
           /\ matcher.pagenum = Some(FormFeeds(s, Len(s)))

\* the text "Act 2 of 2000<FF>Act 2 of 2000": the second citation is on page 1 at 0
C17_Witness ==
    /\ TextCallDone /\ Len(matcher.citations) = 2
    /\ matcher.text[1] = <<"A", "2", "\f", "A", "2">>
    /\ matcher.citations[2].target_id = Some(1)
    /\ matcher.citations[2].start = 0

(***************************************************************************)
(* The context window of a plain-text citation.  The texts are long enough *)
(* for the window to be cut at its length as well as at the ends of the    *)
(* page: a citation of act 2 between two fillers of up to MaxFill          *)
(* characters, optionally followed by a second page of the same kind.      *)
(***************************************************************************)

MaxFill == 32

\* k characters that are no part of a citation, varying with their position
Fill(k, shift) ==
    [i \in 1..k |-> IF (i + shift) % 7 \in {0, 3} THEN ")"
                    ELSE IF (i + shift) % 7 = 1 THEN "(" ELSE " "]

InitContext ==
    /\ \/ CallInputs(dom, todo) /\ todo = Absent
       \/ /\ dom = <<Element("div", {}, NoText, NoText)>>
          /\ \E a, b \in 0..MaxFill : \E pages \in 1..2 :
                todo = Some(Fill(a, 0) \o <<"A", "2">> \o Fill(b, 1)
                            \o (IF pages = 2
                                THEN PageBreak \o Fill(b, 2) \o <<"A", "2">> \o Fill(a, 3)
                                ELSE <<>>))
    /\ orig = dom
    /\ prev = dom
    /\ pc = "idle"
    /\ cur = None
    /\ round = 1
    /\ once = <<>>
    /\ matcher = NewMatcher
    /\ ancs = <<>>
    /\ given = <<>>
    /\ hrefs = <<>>

SpecContext == InitContext /\ [][NextMatch]_vars

\* C18: a citation of a plain-text call on page s has as prefix the up to 30
\* characters of s that end at its start and as suffix the up to 30 characters of
\* s that begin at its end, so neither reaches into another page; a citation of a
\* tree call has no page number, no prefix and no suffix.
C18_ContextWindow ==
    /\ TextCallDone =>
          \A c \in Range(matcher.citations) :
              LET s == split(matcher.text[1], "\f")[c.target_id[1] + 1] IN
              /\ c.prefix = Some(Slice(s, Max(c.start - 30, 0), c.start))
              /\ c.suffix = Some(Slice(s, c.end, Min(c.end + 30, Len(s))))
              /\ Len(c.prefix[1]) = Min(30, c.start)
              /\ Len(c.suffix[1]) = Min(30, Len(s) - c.end)
              /\ ~Contains(c.prefix[1], "\f") /\ ~Contains(c.suffix[1], "\f")
    /\ DomCallDone =>
          \A c \in Range(matcher.citations) :
              c.target_id = Absent /\ c.prefix = Absent /\ c.suffix = Absent

\* a citation with more than 30 characters before it and fewer than 30 after it
C18_Witness ==
    /\ TextCallDone /\ Len(matcher.citations) = 2
    /\ matcher.citations[1].start = 32
    /\ Len(matcher.citations[1].prefix[1]) = 30
    /\ Len(matcher.citations[1].suffix[1]) = 5
    /\ Len(matcher.citations[2].suffix[1]) = 30

(***************************************************************************)
(* wrap_text on its own: one call on any element of a small tree, for the  *)
(* text or the tail, with or without offsets, and the factory of the tests *)
(***************************************************************************)

\* XmlUtilsTestCase.wrap: a new element <wrap> holding text
wrap(d, text) == settext(makeelement(d, "wrap"), Len(d) + 1, text)

\* wrap_text(node, tail, self.wrap, start_pos, end_pos); an offset that is not given
\* stands for the start or the end of the string
wrap_text_call(d, node, tail, start_pos, end_pos) ==
    LET s     == IF tail THEN d[node].tail ELSE d[node].text
        start == IF start_pos = Absent THEN 0 ELSE start_pos[1]
        end   == IF end_pos = Absent THEN Len(s) ELSE end_pos[1]
    IN wrap_text(wrap(d, Slice(s, start, end)), node, tail, Len(d) + 1, start, end)

MaxWrapNodes == 3

MaxWrapWords == 3

WrapVocab == {<<"f", "o">>, <<"b">>}

InitWrap ==
    /\ \E par \in Shapes(MaxWrapNodes) : \E tg \in [2..MaxWrapNodes -> HtmlTags] :
       \E m \in 0..MaxWrapWords : \E ws \in [1..m -> WrapVocab] :
       \E at \in NonDecreasing(m, 2 * MaxWrapNodes - 1) :
          dom = MatchTree(par, [i \in 1..MaxWrapNodes |-> IF i = Root THEN "root" ELSE tg[i]],
                          ws, at, MaxWrapNodes)
    /\ orig = dom
    /\ prev = dom
    /\ pc = "wrap_text"
    /\ todo = <<>>
    /\ cur = None
    /\ round = 1
    /\ once = <<>>
    /\ matcher = <<>>
    /\ ancs = <<>>
    /\ given = <<>>
    /\ hrefs = <<>>

\* the call; cur is the element it returns.  The tail of the root is not spliced:
\* lxml gives the root element no following sibling
WrapText ==
    /\ pc = "wrap_text"
    /\ \E node \in 1..Len(dom) : \E tail \in BOOLEAN :
          /\ tail => node # Root
          /\ LET s == IF tail THEN dom[node].tail ELSE dom[node].text IN
             \E start_pos \in {Absent} \cup {Some(i) : i \in 0..Len(s)} :
             \E end_pos \in {Absent} \cup {Some(i) : i \in 0..Len(s)} :
                /\ start_pos # Absent /\ end_pos # Absent => start_pos[1] <= end_pos[1]
                /\ dom' = wrap_text_call(dom, node, tail, start_pos, end_pos)
                /\ given' = [node |-> node, tail |-> tail,
                             start_pos |-> start_pos, end_pos |-> end_pos]
    /\ cur' = Len(dom) + 1
    /\ pc' = "done"
    /\ UNCHANGED <<orig, prev, todo, round, once, matcher, ancs, hrefs>>

NextWrap == WrapText

SpecWrap == InitWrap /\ [][NextWrap]_vars

\* the string the call was given, and the offsets it stands for
WrapString == IF given.tail THEN orig[given.node].tail ELSE orig[given.node].text

WrapStart == IF given.start_pos = Absent THEN 0 ELSE given.start_pos[1]

WrapEnd == IF given.end_pos = Absent THEN Len(WrapString) ELSE given.end_pos[1]

\* C19: after wrap_text the holder keeps s[:start], the returned element has the
\* text s[start:end] and the tail s[end:], so the three parts make up s; the
\* element is the next sibling of the node for a tail, its first child for a text.
C19_SplicePartition ==
    pc = "done" =>
        LET n    == given.node
            s    == WrapString
            kept == IF given.tail THEN dom[n].tail ELSE dom[n].text
        IN /\ cur \notin OrigIds /\ cur \in Reachable(dom)
           /\ kept = Slice(s, 0, WrapStart)
           /\ dom[cur].text = Slice(s, WrapStart, WrapEnd)
           /\ dom[cur].tail = Slice(s, WrapEnd, Len(s))
           /\ kept \o dom[cur].text \o dom[cur].tail = s
           /\ IF given.tail
              THEN getnext(dom, n) = cur /\ dom[cur].parent = orig[n].parent
              ELSE dom[n].kids # <<>> /\ dom[n].kids[1] = cur /\ dom[cur].parent = n

\* the tail "fob" of an element spliced at 1..2: "f" stays, <wrap>o</wrap>b follows
C19_Witness ==
    /\ pc = "done" /\ given.tail
    /\ WrapString = <<"f", "o", "b">> /\ given.start_pos = Some(1) /\ given.end_pos = Some(2)
    /\ dom[given.node].tail = <<"f">> /\ dom[cur].text = <<"o">> /\ dom[cur].tail = <<"b">>

\* n without the fields a call on it may change
Framed(d, n, fields) == [f \in (DOMAIN d[n]) \ fields |-> d[n][f]]

\* C20: wrap_text changes nothing else.  For a text, the children the node had
\* follow the new first child in their order; for a tail, the node keeps its
\* subtree and its parent gains one child after it.  Every other element of the
\* tree keeps its tag, attributes, text, tail, children and parent.
C20_SpliceFrame ==
    pc = "done" =>
        LET n == given.node
            p == orig[n].parent
        IN /\ Len(dom) = Len(orig) + 1
           /\ dom[cur].kids = <<>>
           /\ IF given.tail
              THEN /\ Framed(dom, n, {"tail"}) = Framed(orig, n, {"tail"})
                   /\ Framed(dom, p, {"kids"}) = Framed(orig, p, {"kids"})
                   /\ dom[p].kids = InsertAt(orig[p].kids, IndexOf(orig[p].kids, n) + 1, cur)
                   /\ \A k \in OrigIds \ {n, p} : dom[k] = orig[k]
                   /\ \A k \in Range(orig[p].kids) \ {n} : TreeVal(dom, k) = TreeVal(orig, k)
                   /\ TreeVal(dom, n).kids = TreeVal(orig, n).kids
              ELSE /\ Framed(dom, n, {"text", "kids"}) = Framed(orig, n, {"text", "kids"})
                   /\ dom[n].kids = <<cur>> \o orig[n].kids
                   /\ \A k \in OrigIds \ {n} : dom[k] = orig[k]
                   /\ \A k \in Range(orig[n].kids) : TreeVal(dom, k) = TreeVal(orig, k)

\* the text of an element with two children was spliced
C20_Witness ==
    /\ pc = "done" /\ ~given.tail /\ Len(orig[given.node].kids) = 2
    /\ WrapString # <<>> /\ WrapEnd < Len(WrapString)
    /\ Len(dom[given.node].kids) = 3
    /\ \E k \in Range(orig[given.node].kids) : orig[k].tail # <<>>

(***************************************************************************)
(* Bounds of the matches                                                   *)
(***************************************************************************)

\* the strings a call may hand to find_text_matches: the texts and tails of the
\* tree, and the pages of the plain text
ScannedStrings ==
    {StringOf(dom, c) : c \in Range(TextNodes(dom, Root))}
    \cup (IF pc = "idle" /\ todo # Absent THEN Range(split(todo[1], "\f")) ELSE {})
    \cup (IF pc # "idle" /\ matcher.text # Absent
          THEN Range(split(matcher.text[1], "\f")) ELSE {})

\* C21: every match find_text_matches yields for a string s has
\* 0 <= start <= end <= Len(s) and as text the slice of s from start to end.
C21_MatchBounds ==
    \A s \in ScannedStrings : \A m \in Range(find_text_matches(s)) :
        /\ 0 <= m.start /\ m.start <= m.end /\ m.end <= Len(s)
        /\ m.text = Slice(s, m.start, m.end)
        /\ m.string = s

\* a page "Act 2 of 2000)" whose match was trimmed to end before the ")"
C21_Witness ==
    /\ pc = "extract_paged_text_matches"
    /\ <<"A", "2", ")">> \in ScannedStrings
    /\ \E m \in Range(find_text_matches(<<"A", "2", ")">>)) : m.start = 0 /\ m.end = 2

(***************************************************************************)
(* The scans of a DOM call: the calls of find_text_matches in              *)
(* run_dom_matching, each with the element and the string it was given     *)
(***************************************************************************)

Scan(d, node, is_tail) ==
    [getparent |-> node, is_tail |-> is_tail,
     string |-> IF is_tail THEN d[node].tail ELSE d[node].text]

\* line 179, in the while loop of lines 178-189
RECURSIVE ScansOfTails(_, _, _)
ScansOfTails(self, d, node) ==
    IF node = None \/ d[node].tail = NoText THEN <<>>
    ELSE LET r == ScanMatches(self, d, node, find_text_matches(d[node].tail), TRUE) IN
         <<Scan(d, node, TRUE)>> \o ScansOfTails(r.self, r.dom, r.new_node)

\* lines 169 and 179, for one candidate
ScansOfCandidate(self, d, candidate) ==
    LET node == candidate.getparent IN
    IF ~candidate.is_tail
    THEN LET r == ScanMatches(self, d, node, find_text_matches(d[node].text), FALSE) IN
         <<Scan(d, node, FALSE)>>
         \o ScansOfTails(r.self, r.dom, IF r.new_node # None THEN r.new_node ELSE node)
    ELSE ScansOfTails(self, d, node)

RECURSIVE ScansOfCandidates(_, _, _)
ScansOfCandidates(self, d, candidates) ==
    IF candidates = <<>> THEN <<>>
    ELSE LET r == ScanCandidate(self, d, Head(candidates)) IN
         ScansOfCandidate(self, d, Head(candidates))
         \o ScansOfCandidates(r.self, r.dom, Tail(candidates))

RECURSIVE ScansOfCall(_, _, _)
ScansOfCall(self, d, ancestors) ==
    IF ancestors = <<>> THEN <<>>
    ELSE LET cs == candidate_text_nodes(self, d, Head(ancestors))
             r  == ScanCandidates(self, d, cs)
         IN ScansOfCandidates(self, d, cs) \o ScansOfCall(r.self, r.dom, Tail(ancestors))

\* the scans of the call that has just returned, from the tree it was given
Scans ==
    LET self == [matcher EXCEPT !.citations = <<>>] IN
    ScansOfCall(self, orig, ancestor_nodes(self, orig))

\* C22: in one DOM call no text and no tail is scanned twice, whether it still
\* holds the string the selector picked or the prefix a splice left behind,
\* and the text of an inserted marker is never scanned.
C22_EachStringScannedOnce ==
    DomCallDone =>
        LET log == Scans IN
        /\ \A i, j \in 1..Len(log) :
              i < j => ~(/\ log[i].getparent = log[j].getparent
                         /\ log[i].is_tail = log[j].is_tail)
        /\ \A i \in 1..Len(log) : log[i].getparent \in Range(Made) => log[i].is_tail

(***************************************************************************)
(* Markers and citations of a DOM call                                     *)
(***************************************************************************)

\* element.get(key): the value of the attribute, Absent when it is not set
get(d, n, key) ==
    IF \E a \in d[n].attrib : a[1] = key
    THEN Some((CHOOSE a \in d[n].attrib : a[1] = key)[2]) ELSE Absent

\* C23: throughout and after a DOM call the markers inserted so far and the
\* citations correspond one to one: there are as many of each, and the k-th
\* marker inserted has the href and the text of the k-th citation.
C23_MarkersMatchCitations ==
    InDomCall =>
        /\ Len(Made) = Len(matcher.citations)
        /\ \A k \in 1..Len(Made) :
              /\ Made[k] \in Reachable(dom)
              /\ get(dom, Made[k], "href") = Some(matcher.citations[k].href)
              /\ dom[Made[k]].text = matcher.citations[k].text

\* two markers with different texts were inserted
C23_Witness ==
    /\ DomCallDone /\ Len(Made) = 2
    /\ dom[Made[1]].text # dom[Made[2]].text
    /\ get(dom, Made[2], "href") = Some("/akn/za/act/2000/2")

(***************************************************************************)
(* Termination of a DOM call                                               *)
(***************************************************************************)

RECURSIVE SumLen(_)
SumLen(strings) == IF strings = <<>> THEN 0 ELSE Len(Head(strings)) + SumLen(Tail(strings))

\* the number of characters of candidate text in the tree the call was given
CandidateChars == SumLen([i \in 1..Len(OrigCandidates) |-> StringOf(orig, OrigCandidates[i])])

Pruned == (pc = "MergeAdjacentInlines" /\ round = 2) \/ pc = "done"

\* the characters of t that are not whitespace
NonSpace(t) == SelectSeq(t, LAMBDA c : ~IsSpace(c))

\* C25: RemoveEmptyParagraphs keeps the non-whitespace text of the tree: the
\* tail of a removed p is kept, and an element it removes holds no text but
\* whitespace; the root is never removed.
C25_PruningKeepsContent ==
    Pruned =>
        /\ NonSpace(Inner(dom, Root)) = NonSpace(Inner(prev, Root))
        /\ \A n \in Reachable(prev) \ Reachable(dom) :
              Blank(Inner(prev, n)) /\ n # Root
        /\ dom[Root].parent = None

(***************************************************************************)
(* Repeated calls of make_href on one match                                *)
(***************************************************************************)

\* C26: every call of make_href on a match returns the href the first call
\* returned, which is the href of the groups as the pattern captured them,
\* although the calls rewrite the groups of the match.
C26_HrefStable ==
    pc # "KeyError" =>
        \A i \in 1..Len(hrefs) :
            /\ hrefs[i] = hrefs[1]
            /\ hrefs[i] = ClassMakeHref(matcher, orig).value

\* three calls on a resolution of year 05, whose groups now hold 2005
C26_Witness ==
    /\ pc = "done" /\ Len(hrefs) = 3
    /\ matcher.cls = "AchprResolutionMatcher"
    /\ orig.groups.year = <<"0", "5">>
    /\ given.groups.year = <<"2", "0", "0", "5">>
    /\ hrefs[3] = "/akn/aa-au/statement/resolution/achpr/2005/7"

====
